---- MODULE Spec2Model ----
(***************************************************************************)
(* A model of ml-service/main.py: the YOLO face detection microservice.    *)
(*                                                                         *)
(* Strings are sequences of one-character strings, so that split(",") and  *)
(* base64 decoding are computed character by character.  Confidences are   *)
(* integers in hundredths (0.95 is 95, the threshold 0.5 is 50).           *)
(* processing_time_ms is a wall-clock reading and is left out of the       *)
(* response record.                                                        *)
(***************************************************************************)
EXTENDS Integers, Sequences, FiniteSets, TLC

VARIABLES
    MODEL_PATH,             \* main.py:42
    CONFIDENCE_THRESHOLD,   \* main.py:43 (hundredths)
    MAX_IMAGE_SIZE,         \* main.py:44
    yolo_model,             \* main.py:48  "None" or "YOLO"
    phase,                  \* "starting" | "running" | "decode"
    startup_exc,            \* the exception caught at main.py:71: "none" | "load" | "warmup"
    request,                \* the request being handled
    response,               \* the response produced for it
    image,                  \* analyze_face's local `image` (main.py:219)
    results,                \* analyze_face's local `results` (main.py:223)
    b64in,                  \* arguments of decode_base64_image under SpecDecode
    b64out                  \* its outcomes under SpecDecode

config == <<MODEL_PATH, CONFIDENCE_THRESHOLD, MAX_IMAGE_SIZE>>
vars == <<MODEL_PATH, CONFIDENCE_THRESHOLD, MAX_IMAGE_SIZE, yolo_model, phase,
          startup_exc, request, response, image, results, b64in, b64out>>

----------------------------------------------------------------------------
(* Bounds of the model *)

\* a request string is at most MaxSegs segments joined by commas
MaxSegs == 2
\* the model returns at most MaxDet detections for one image
MaxDet == 2

----------------------------------------------------------------------------
(* Environment: the values the configuration can take *)

ModelPaths == {<<"yolov8n-face.pt">>}
ConfidenceThresholds == {50, 80}
MaxImageSizes == {5}

\* confidences a detection can carry (hundredths)
Confs == {60, 90}

----------------------------------------------------------------------------
(* Generic helpers *)

Abs(n) == IF n < 0 THEN -n ELSE n

Max2(a, b) == IF a >= b THEN a ELSE b

RECURSIVE MaxOfSeq(_)
\* Python's max() over a non-empty list
MaxOfSeq(s) == IF Len(s) = 1 THEN s[1] ELSE Max2(s[1], MaxOfSeq(Tail(s)))

RECURSIVE SeqsUpTo(_, _)
\* all sequences over S of length at most n
SeqsUpTo(S, n) ==
    IF n = 0 THEN {<<>>}
    ELSE LET shorter == SeqsUpTo(S, n - 1)
         IN  shorter \cup {Append(s, x) : s \in {t \in shorter : Len(t) = n - 1}, x \in S}

----------------------------------------------------------------------------
(* Strings *)

RECURSIVE Split(_, _)
\* str.split(sep): the pieces between the separators, at least one piece
Split(s, sep) ==
    IF \A i \in 1..Len(s) : s[i] # sep
    THEN <<s>>
    ELSE LET k == CHOOSE i \in 1..Len(s) : s[i] = sep /\ \A j \in 1..(i - 1) : s[j] # sep
         IN  <<SubSeq(s, 1, k - 1)>> \o Split(SubSeq(s, k + 1, Len(s)), sep)

Contains(s, c) == \E i \in 1..Len(s) : s[i] = c

RECURSIVE Join(_, _)
\* sep.join(pieces)
Join(pieces, sep) ==
    IF Len(pieces) = 0 THEN <<>>
    ELSE IF Len(pieces) = 1 THEN pieces[1]
    ELSE pieces[1] \o <<sep>> \o Join(Tail(pieces), sep)

----------------------------------------------------------------------------
(* base64.b64decode and Image.open, as decode_base64_image uses them *)

\* the characters of the base64 alphabet that occur in the model's strings,
\* with their 6-bit values
B64Chars == {"A", "B", "F", "M", "Q", "U", "c", "d", "g"}

B64Val(c) ==
    CASE c = "A" -> 0
      [] c = "B" -> 1
      [] c = "F" -> 5
      [] c = "M" -> 12
      [] c = "Q" -> 16
      [] c = "U" -> 20
      [] c = "c" -> 28
      [] c = "d" -> 29
      [] c = "g" -> 32

IsB64Char(c) == c \in B64Chars

\* four 6-bit characters make three bytes
B64Group(g) ==
    LET n == ((B64Val(g[1]) * 64 + B64Val(g[2])) * 64 + B64Val(g[3])) * 64 + B64Val(g[4])
    IN  <<n \div 65536, (n \div 256) % 256, n % 256>>

RECURSIVE B64Groups(_)
B64Groups(s) ==
    IF Len(s) = 0 THEN <<>>
    ELSE B64Group(SubSeq(s, 1, 4)) \o B64Groups(SubSeq(s, 5, Len(s)))

\* base64.b64decode(s) with validate=False: characters outside the alphabet
\* are discarded, and what remains must be a whole number of 4-character
\* groups (the model's strings carry no "=" padding), else binascii.Error
b64decode(s) ==
    LET data == SelectSeq(s, IsB64Char)
    IN  IF Len(data) % 4 # 0
        THEN [ok |-> FALSE, bytes |-> <<>>, err |-> "Incorrect padding"]
        ELSE [ok |-> TRUE, bytes |-> B64Groups(data), err |-> ""]

\* Image.open(BytesIO(bytes)): the model's image file is a magic byte
\* (1: an RGB image, 2: a greyscale image), a width byte and a height byte;
\* anything else is not identified as an image
Image_open(bytes) ==
    IF Len(bytes) >= 3 /\ bytes[1] \in {1, 2} /\ bytes[2] >= 1 /\ bytes[3] >= 1
    THEN [ok |-> TRUE, size |-> <<bytes[2], bytes[3]>>,
          mode |-> IF bytes[1] = 1 THEN "RGB" ELSE "L", err |-> ""]
    ELSE [ok |-> FALSE, size |-> <<0, 0>>, mode |-> "", err |-> "cannot identify image file"]

\* image.convert("RGB") when image.mode != "RGB" (main.py:138-139)
ConvertRGB(img) == IF img.mode # "RGB" THEN [img EXCEPT !.mode = "RGB"] ELSE img

\* new_size of main.py:143-144: ratio = M / max(size), int(side * ratio).
\* The quotient is exact here; the code's double arithmetic agrees with it
\* for the sizes of this model.
NewSize(size, M) ==
    LET m == Max2(size[1], size[2])
    IN  <<(size[1] * M) \div m, (size[2] * M) \div m>>

\* image.resize(new_size, LANCZOS) (main.py:145): Pillow raises
\* ValueError("height and width must be > 0") for a side below 1
Resize(img, new_size) ==
    IF new_size[1] < 1 \/ new_size[2] < 1
    THEN [ok |-> FALSE, size |-> <<0, 0>>, mode |-> "", err |-> "height and width must be > 0"]
    ELSE [img EXCEPT !.size = new_size]

\* a variant of StripPrefix that keeps the whole string
StripPrefix_none(base64_string) == base64_string

\* the prefix removal of main.py:130-131
StripPrefix(base64_string) ==
    IF Contains(base64_string, ",") THEN Split(base64_string, ",")[2] ELSE base64_string

\* the ValueError of main.py:150; detail is <<"Invalid image data", cause>>
InvalidImage(cause) ==
    [ok |-> FALSE, size |-> <<0, 0>>, mode |-> "", err |-> "Invalid image data", cause |-> cause]

\* decode_base64_image (main.py:124-150); M is MAX_IMAGE_SIZE.
\* Returns the image, or the ValueError raised at line 150.
decode_base64_image(base64_string, M) ==
    LET payload == StripPrefix(base64_string)
        image_data == b64decode(payload)
        opened == Image_open(image_data.bytes)
        rgb == ConvertRGB(opened)
        resized == IF Max2(rgb.size[1], rgb.size[2]) > M
                   THEN Resize(rgb, NewSize(rgb.size, M))
                   ELSE rgb
    IN  IF ~image_data.ok THEN InvalidImage(image_data.err)
        ELSE IF ~opened.ok THEN InvalidImage(opened.err)
        ELSE IF ~resized.ok THEN InvalidImage(resized.err)
        ELSE [ok |-> TRUE, size |-> resized.size, mode |-> resized.mode, err |-> "", cause |-> ""]

\* the local `image` before line 219 has run
NoImage == [ok |-> FALSE, size |-> <<0, 0>>, mode |-> "", err |-> "unset", cause |-> ""]

----------------------------------------------------------------------------
(* The request strings *)

\* "d:" stands for a data-URL header such as "data:image/png;base64"
Header == <<"d", ":">>
\* a 3 x 5 RGB image: bytes 1, 3, 5
Img3x5 == <<"A", "Q", "M", "F">>
\* a 7 x 5 greyscale image: bytes 2, 7, 5
Img7x5 == <<"A", "g", "c", "F">>
\* a 7 x 1 RGB image: bytes 1, 7, 1
Img7x1 == <<"A", "Q", "c", "B">>
\* base64 that is no image: bytes 0, 0, 0
NotImage == <<"A", "A", "A", "A">>
\* base64 with a character missing
BadPadding == <<"A", "Q", "M">>
Empty == <<>>

Segments == {Header, Img3x5, Img7x5, Img7x1, NotImage, BadPadding, Empty}

\* the strings a client can send: up to MaxSegs segments joined by commas
Strings == {Join(p, ",") : p \in SeqsUpTo(Segments, MaxSegs) \ {<<>>}}

----------------------------------------------------------------------------
(* The detection model (ultralytics YOLO), an external component *)

\* the boxes the model can report on an image of width W: unit boxes at the
\* left edge, next to it and at the right edge, and one lower down
Boxes(W) == {<<x1, 0, x1 + 1, 1>> : x1 \in {0, 1, W - 1}} \cup {<<0, 1, 1, 2>>}

\* one element of result.boxes: class id, xyxy box, confidence; the model is
\* called with conf=CONFIDENCE_THRESHOLD and reports nothing below it
Detections(W, threshold) ==
    [cls : {0, 1}, xyxy : Boxes(W), conf : {c \in Confs : c >= threshold}]

NoResults == [kind |-> "unset", at |-> "", exc |-> "", has_boxes |-> FALSE, boxes |-> <<>>]

\* what lines 220-243 can meet: the model returns one result whose boxes are
\* None or a list, or an exception is raised during inference (line 223) or
\* while the detections are read (lines 233-243)
Outcomes(W, threshold) ==
    {[kind |-> "returned", at |-> "", exc |-> "", has_boxes |-> TRUE, boxes |-> d] :
        d \in SeqsUpTo(Detections(W, threshold), MaxDet)}
    \cup {[kind |-> "returned", at |-> "", exc |-> "", has_boxes |-> FALSE, boxes |-> <<>>]}
    \cup {[kind |-> "raised", at |-> a, exc |-> e, has_boxes |-> FALSE, boxes |-> <<>>] :
        a \in {"inference", "compose"}, e \in {"ValueError", "RuntimeError"}}

----------------------------------------------------------------------------
(* Rational arithmetic for estimate_looking_away: <<n, d>> is n/d, d > 0 *)

RSub(a, b) == <<a[1] * b[2] - b[1] * a[2], a[2] * b[2]>>
RAbs(a) == <<Abs(a[1]), a[2]>>
\* a / b for b > 0
RDiv(a, b) == <<a[1] * b[2], a[2] * b[1]>>
RGt(a, b) == a[1] * b[2] > b[1] * a[2]

\* a variant of estimate_looking_away that flags a deviation of exactly 40%
estimate_looking_away_ge(boxes, image_width) ==
    IF Len(boxes) = 0 THEN FALSE
    ELSE LET main_box == boxes[1]
             x1 == main_box[1]
             x2 == main_box[3]
             face_center_x == <<x1 + x2, 2>>
             image_center_x == <<image_width, 2>>
             deviation_ratio == RDiv(RAbs(RSub(face_center_x, image_center_x)), image_center_x)
         IN  ~RGt(<<4, 10>>, deviation_ratio)

\* estimate_looking_away (main.py:152-177)
estimate_looking_away(boxes, image_width) ==
    IF Len(boxes) = 0 THEN FALSE
    ELSE LET main_box == boxes[1]
             x1 == main_box[1]
             x2 == main_box[3]
             face_center_x == <<x1 + x2, 2>>
             image_center_x == <<image_width, 2>>
             deviation_ratio == RDiv(RAbs(RSub(face_center_x, image_center_x)), image_center_x)
         IN  RGt(deviation_ratio, <<4, 10>>)

----------------------------------------------------------------------------
(* Composition of the result (main.py:229-244) *)

IsPerson(box) == box.cls = 0

\* box.xyxy[0].tolist() of every box of a list (line 238)
XyxyOf(bs) == [i \in 1..Len(bs) |-> bs[i].xyxy]

\* float(box.conf[0]) of every box of a list (line 239)
ConfOf(bs) == [i \in 1..Len(bs) |-> bs[i].conf]

\* the list `boxes` after the loop of lines 233-239
PersonBoxes(res) ==
    IF res.has_boxes THEN XyxyOf(SelectSeq(res.boxes, IsPerson)) ELSE <<>>

\* a variant of PersonConfidences that keeps the confidences of every class
PersonConfidences_all(res) ==
    IF res.has_boxes THEN ConfOf(res.boxes) ELSE <<>>

\* the list `confidences` after the loop of lines 233-239
PersonConfidences(res) ==
    IF res.has_boxes THEN ConfOf(SelectSeq(res.boxes, IsPerson)) ELSE <<>>

\* line 243
Confidence(confidences) == IF confidences # <<>> THEN MaxOfSeq(confidences) ELSE 0

\* a variant of LookingAway that applies the heuristic to any number of boxes
LookingAway_unguarded(boxes, image_width) == estimate_looking_away(boxes, image_width)

\* line 244
LookingAway(boxes, image_width) ==
    IF Len(boxes) = 1 THEN estimate_looking_away(boxes, image_width) ELSE FALSE

----------------------------------------------------------------------------
(* Requests and responses.  An optional value is <<>> (null) or <<v>>. *)

NoRequest == [route |-> "none", image |-> <<>>]
NoResponse == [route |-> "none", status |-> 0]

\* AnalyzeResponse (main.py:104-112), HTTP 200
AnalyzeResponse(success, face_count, confidence, looking_away, bounding_boxes, error) ==
    [route |-> "analyze", status |-> 200, success |-> success, face_count |-> face_count,
     confidence |-> confidence, looking_away |-> looking_away,
     bounding_boxes |-> bounding_boxes, error |-> error]

\* the mock response of main.py:208-215
MockResponse ==
    AnalyzeResponse(TRUE, 1, 95, FALSE, <<>>, <<"Model not loaded - mock response">>)

\* raise HTTPException(status_code, detail) (main.py:266, 269)
HTTPException(status_code, detail) ==
    [route |-> "analyze", status |-> status_code, detail |-> detail]

\* HealthResponse (main.py:184-190)
HealthResponse(model) ==
    [route |-> "health", status |-> 200,
     health |-> IF model # "None" THEN "healthy" ELSE "degraded",
     model_loaded |-> model # "None",
     model_path |-> MODEL_PATH,
     model_type |-> "yolov8-face",
     confidence_threshold |-> CONFIDENCE_THRESHOLD]

\* the body of GET / (main.py:274-282)
RootResponse ==
    [route |-> "root", status |-> 200, service |-> "YOLO Face Detection",
     version |-> "1.0.0", model |-> "YOLOv8n (standard)"]

----------------------------------------------------------------------------
(* analyze_face (main.py:192-269) *)

\* a variant of ExceptionStatus with the single clause `except Exception`
ExceptionStatus_500(exc) == 500

\* the except clauses of lines 264-269: ValueError gives 400, the rest 500
ExceptionStatus(exc) == IF exc = "ValueError" THEN 400 ELSE 500

\* str(e) of an exception raised by the model or while composing
ExcMessage(out) == <<"error during", out.at>>

\* the response composed at lines 241-262 from the model's result
Compose(res, image_width) ==
    LET boxes == PersonBoxes(res)
        confidences == PersonConfidences(res)
    IN  AnalyzeResponse(TRUE, Len(boxes), Confidence(confidences),
                        LookingAway(boxes, image_width), <<boxes>>, <<>>)

\* a variant of Analyze that decodes the image before it looks at the model
Analyze_decodes_first(model, base64_string, M, out) ==
    LET img == decode_base64_image(base64_string, M)
    IN  IF ~img.ok
        THEN [response |-> HTTPException(400, <<img.err, img.cause>>),
              image |-> NoImage, results |-> NoResults]
        ELSE IF model = "None"
        THEN [response |-> MockResponse, image |-> img, results |-> NoResults]
        ELSE IF out.kind = "raised"
        THEN [response |-> HTTPException(IF out.exc = "ValueError" THEN 400 ELSE 500,
                                         <<"error during", out.at>>),
              image |-> img, results |-> out]
        ELSE [response |-> AnalyzeResponse(TRUE, 0, 0, FALSE, <<out.boxes>>, <<>>),
              image |-> img, results |-> out]

\* the handler on one request: what it returns or raises, and its locals.
\* `out` is what the model does when it is called.
Analyze(model, base64_string, M, out) ==
    IF model = "None"
    THEN [response |-> MockResponse, image |-> NoImage, results |-> NoResults]
    ELSE LET img == decode_base64_image(base64_string, M)
         IN  IF ~img.ok
             THEN [response |-> HTTPException(ExceptionStatus("ValueError"), <<img.err, img.cause>>),
                   image |-> NoImage, results |-> NoResults]
             ELSE IF out.kind = "raised"
             THEN [response |-> HTTPException(ExceptionStatus(out.exc), ExcMessage(out)),
                   image |-> img, results |-> out]
             ELSE [response |-> Compose(out, img.size[1]), image |-> img, results |-> out]

\* what the model can do on this request: it is called only when it is
\* loaded and the image has decoded
OutcomesFor(model, base64_string, M, threshold) ==
    LET img == decode_base64_image(base64_string, M)
    IN  IF model # "None" /\ img.ok THEN Outcomes(img.size[1], threshold) ELSE {NoResults}

----------------------------------------------------------------------------
(* The state machine *)

Init ==
    /\ MODEL_PATH \in ModelPaths
    /\ CONFIDENCE_THRESHOLD \in ConfidenceThresholds
    /\ MAX_IMAGE_SIZE \in MaxImageSizes
    /\ yolo_model = "None"
    /\ phase = "starting"
    /\ startup_exc = "none"
    /\ request = NoRequest
    /\ response = NoResponse
    /\ image = NoImage
    /\ results = NoResults
    /\ b64in = <<>>
    /\ b64out = <<>>

\* the handle after the try block of lifespan, for each way it can end:
\* YOLO(MODEL_PATH) raises (line 62) and the handle stays None; the warm-up
\* call raises (line 67) after the handle was assigned; or both succeed
ModelAfterStartup(outcome) == IF outcome = "load" THEN "None" ELSE "YOLO"

\* lifespan, up to the yield (main.py:52-75)
lifespan ==
    /\ phase = "starting"
    /\ \E outcome \in {"none", "load", "warmup"} :
        /\ yolo_model' = ModelAfterStartup(outcome)
        /\ startup_exc' = outcome
    /\ phase' = "running"
    /\ UNCHANGED <<config, request, response, image, results, b64in, b64out>>

\* the framework hands a request to its handler
Receive ==
    /\ phase = "running"
    /\ request = NoRequest
    /\ \E r \in {"health", "root"} \cup {"analyze"} :
        \E s \in IF r = "analyze" THEN Strings ELSE {<<>>} :
            request' = [route |-> r, image |-> s]
    /\ UNCHANGED <<config, yolo_model, phase, startup_exc, response, image, results,
                   b64in, b64out>>

\* GET /health (main.py:181-190)
health_check ==
    /\ phase = "running"
    /\ request.route = "health"
    /\ response = NoResponse
    /\ response' = HealthResponse(yolo_model)
    /\ UNCHANGED <<config, yolo_model, phase, startup_exc, request, image, results,
                   b64in, b64out>>

\* GET / (main.py:271-282)
root ==
    /\ phase = "running"
    /\ request.route = "root"
    /\ response = NoResponse
    /\ response' = RootResponse
    /\ UNCHANGED <<config, yolo_model, phase, startup_exc, request, image, results,
                   b64in, b64out>>

\* a variant of analyze_face that drops the model handle when a request fails
analyze_face_drops_model ==
    /\ phase = "running"
    /\ request.route = "analyze"
    /\ response = NoResponse
    /\ \E out \in OutcomesFor(yolo_model, request.image, MAX_IMAGE_SIZE, CONFIDENCE_THRESHOLD) :
        LET r == Analyze(yolo_model, request.image, MAX_IMAGE_SIZE, out)
        IN  /\ response' = r.response
            /\ image' = r.image
            /\ results' = r.results
            /\ yolo_model' = IF r.response.status = 500 THEN "None" ELSE yolo_model
    /\ UNCHANGED <<config, phase, startup_exc, request, b64in, b64out>>

\* POST /analyze (main.py:192-269)
analyze_face ==
    /\ phase = "running"
    /\ request.route = "analyze"
    /\ response = NoResponse
    /\ \E out \in OutcomesFor(yolo_model, request.image, MAX_IMAGE_SIZE, CONFIDENCE_THRESHOLD) :
        LET r == Analyze(yolo_model, request.image, MAX_IMAGE_SIZE, out)
        IN  /\ response' = r.response
            /\ image' = r.image
            /\ results' = r.results
    /\ UNCHANGED <<config, yolo_model, phase, startup_exc, request, b64in, b64out>>

\* the response is sent and the handler's frame is gone
Respond ==
    /\ phase = "running"
    /\ response # NoResponse
    /\ request' = NoRequest
    /\ response' = NoResponse
    /\ image' = NoImage
    /\ results' = NoResults
    /\ UNCHANGED <<config, yolo_model, phase, startup_exc, b64in, b64out>>

Next == lifespan \/ Receive \/ health_check \/ root \/ analyze_face \/ Respond

Spec == Init /\ [][Next]_vars

----------------------------------------------------------------------------
(* decode_base64_image on its own: a payload p, alone and behind a prefix h *)

InitDecode ==
    /\ MODEL_PATH \in ModelPaths
    /\ CONFIDENCE_THRESHOLD \in ConfidenceThresholds
    /\ MAX_IMAGE_SIZE \in MaxImageSizes
    /\ yolo_model = "None"
    /\ phase = "decode"
    /\ startup_exc = "none"
    /\ request = NoRequest
    /\ response = NoResponse
    /\ image = NoImage
    /\ results = NoResults
    /\ b64in \in [h : Strings, p : Strings]
    /\ b64out = <<>>

decode_call ==
    /\ phase = "decode"
    /\ b64out = <<>>
    /\ b64out' = <<[plain |-> decode_base64_image(b64in.p, MAX_IMAGE_SIZE),
                    prefixed |-> decode_base64_image(b64in.h \o <<",">> \o b64in.p,
                                                     MAX_IMAGE_SIZE)]>>
    /\ UNCHANGED <<config, yolo_model, phase, startup_exc, request, response, image,
                   results, b64in>>

NextDecode == decode_call

SpecDecode == InitDecode /\ [][NextDecode]_vars

----------------------------------------------------------------------------
(* Properties *)

\* the response in hand is a 200 of POST /analyze
AnalyzeOk == response.route = "analyze" /\ response.status = 200

\* the response in hand was composed from a result the model returned
RealInference == AnalyzeOk /\ results.kind = "returned"

\* C1: in every 200 response of POST /analyze, mock or real, looking_away is
\* false whenever face_count is not 1, whatever the boxes are.
C1_NotOneFaceNotLookingAway ==
    (AnalyzeOk /\ response.face_count # 1) => ~response.looking_away

\* C1 witness: two persons were returned, the first of them far off centre
C1_Witness ==
    /\ RealInference
    /\ response.face_count = 2
    /\ estimate_looking_away(response.bounding_boxes[1], image.size[1])
    /\ ~response.looking_away

\* C2 as stated: in every state after startup, a request whose image does
\* not decode is answered 400 with a detail holding "Invalid image data".
C2_Original ==
    (response.route = "analyze" /\ ~decode_base64_image(request.image, MAX_IMAGE_SIZE).ok)
        => (response.status = 400 /\ response.detail[1] = "Invalid image data")

\* C2 amended: when the model handle is set (yolo_model is not None), a
\* request whose image does not decode is answered 400 with a detail holding
\* "Invalid image data"; with the handle None the answer is the 200 mock.
C2_UndecodableIs400WhenLoaded ==
    (response.route = "analyze" /\ yolo_model # "None"
        /\ ~decode_base64_image(request.image, MAX_IMAGE_SIZE).ok)
        => (response.status = 400 /\ response.detail[1] = "Invalid image data")

\* C2 witness: a loaded service has answered a payload that is no image
C2_Witness ==
    /\ yolo_model # "None"
    /\ request.route = "analyze"
    /\ request.image = NotImage
    /\ response.route = "analyze"
    /\ response.status = 400

\* C3: with the handle None, every POST /analyze, whatever its image, gets
\* the 200 mock payload (success, face_count 1, confidence 0.95, looking_away
\* false, bounding_boxes null, error set), and neither the decoder nor the
\* model has run.
C3_MockWhenUnavailable ==
    (response.route = "analyze" /\ yolo_model = "None")
        => /\ response.status = 200
           /\ response.success
           /\ response.face_count = 1
           /\ response.confidence = 95
           /\ ~response.looking_away
           /\ response.bounding_boxes = <<>>
           /\ response.error # <<>>
           /\ image = NoImage
           /\ results = NoResults

\* C3 witness: the mock was returned for a malformed image
C3_Witness ==
    /\ yolo_model = "None"
    /\ request.image = BadPadding
    /\ response.route = "analyze"
    /\ response.status = 200

\* C4: when the try block of lifespan raised, at the load or at the warm-up,
\* GET /health reports model_loaded false and status "degraded", and
\* POST /analyze returns the 200 mock.
C4_FailedStartupIsDegraded ==
    (phase = "running" /\ startup_exc # "none")
        => /\ response.route = "health"
                => (~response.model_loaded /\ response.health = "degraded")
           /\ response.route = "analyze" => response = MockResponse

\* C5: with the model loaded and the image decoded, any exception raised by
\* the inference or the composition is answered 500 with its message.
C5_LaterExceptionIs500 ==
    (response.route = "analyze" /\ yolo_model # "None" /\ image.ok /\ results.kind = "raised")
        => (response.status = 500 /\ response.detail = ExcMessage(results))

\* C6: in a real-inference response with exactly one detection (x1,y1,x2,y2)
\* on an image of width W, looking_away holds exactly when
\* 5 * |x1 + x2 - W| > 2 * W; y1 and y2 play no part.
C6_LookingAwayThreshold ==
    (RealInference /\ response.face_count = 1)
        => LET box == response.bounding_boxes[1][1]
               W == image.size[1]
           IN  response.looking_away <=> (5 * Abs(box[1] + box[3] - W) > 2 * W)

\* C6 witness: a single face exactly 40% off centre, not flagged
C6_Witness ==
    /\ RealInference
    /\ response.face_count = 1
    /\ LET box == response.bounding_boxes[1][1]
           W == image.size[1]
       IN  5 * Abs(box[1] + box[3] - W) = 2 * W
    /\ ~response.looking_away

\* the confidences of the class-0 detections of the model's result
PersonConfSet == {results.boxes[i].conf : i \in {j \in 1..Len(results.boxes) : results.boxes[j].cls = 0}}

\* C7: in a real-inference response, face_count is the number of boxes
\* returned, which are the class-0 detections, and confidence is the largest
\* confidence among exactly those detections, or 0 when there are none.
C7_ConfidenceIsMaxOfReturned ==
    RealInference
        => /\ response.face_count = Len(response.bounding_boxes[1])
           /\ response.face_count = Cardinality({j \in 1..Len(results.boxes) : results.boxes[j].cls = 0})
           /\ IF PersonConfSet = {}
              THEN response.confidence = 0
              ELSE /\ response.confidence \in PersonConfSet
                   /\ \A c \in PersonConfSet : response.confidence >= c

\* C7 witness: a detection of another class outranks the only person
C7_Witness ==
    /\ RealInference
    /\ response.face_count = 1
    /\ response.confidence = 60
    /\ \E i \in 1..Len(results.boxes) : results.boxes[i].cls # 0 /\ results.boxes[i].conf = 90

\* two outcomes of decode_base64_image agree: the same image, or both the
\* "Invalid image data" failure
SameOutcome(a, b) ==
    /\ a.ok = b.ok
    /\ a.ok => (a.size = b.size /\ a.mode = b.mode)
    /\ ~a.ok => (a.err = "Invalid image data" /\ b.err = "Invalid image data")

\* C8 as stated: for every payload p and every prefix h, decoding h "," p
\* has the outcome of decoding p.
C8_Original ==
    b64out # <<>> => SameOutcome(b64out[1].prefixed, b64out[1].plain)

\* C8 amended: for every payload p and every prefix h that hold no comma,
\* decoding h "," p has the outcome of decoding p: the same image, or the
\* same "Invalid image data" failure.
C8_PrefixIsDiscarded ==
    (b64out # <<>> /\ ~Contains(b64in.h, ",") /\ ~Contains(b64in.p, ","))
        => SameOutcome(b64out[1].prefixed, b64out[1].plain)

\* C8 witness: an image behind a data-URL header has decoded
C8_Witness ==
    /\ b64out # <<>>
    /\ b64in.h = Header
    /\ b64in.p = Img7x5
    /\ b64out[1].prefixed.ok
    /\ b64out[1].prefixed.size = <<5, 3>>

\* C9: a decodable image of size (w, h) is returned, not refused, with both
\* sides at least 1 and the longer at most M: unchanged when max(w, h) <= M,
\* else (floor(w*M/max(w,h)), floor(h*M/max(w,h))).
C9_DecodableImageIsReturned ==
    LET data == b64decode(StripPrefix(b64in.p))
        opened == Image_open(data.bytes)
        w == opened.size[1]
        h == opened.size[2]
        m == Max2(w, h)
        M == MAX_IMAGE_SIZE
    IN  (b64out # <<>> /\ data.ok /\ opened.ok)
            => /\ b64out[1].plain.ok
               /\ b64out[1].plain.size[1] >= 1
               /\ b64out[1].plain.size[2] >= 1
               /\ Max2(b64out[1].plain.size[1], b64out[1].plain.size[2]) <= M
               /\ b64out[1].plain.size =
                    IF m <= M THEN <<w, h>> ELSE <<(w * M) \div m, (h * M) \div m>>

====
